---------------------------- MODULE Spec2Model ----------------------------
(***************************************************************************)
(* LogLens (src/src/extension.ts): the tailing state machine (tailFile,    *)
(* the fs.watch callback, the two teardown paths) and the document scan    *)
(* (applyHighlights, updateStatusBar, filterByLevel).                      *)
(***************************************************************************)
EXTENDS Integers, Sequences, FiniteSets, TLC

VARIABLES
    files,          \* the file system: path -> [state, data]
    watchers,       \* the fs.FSWatcher objects that are open or still referenced
    tailWatchers,   \* the Map<string, fs.FSWatcher>, in insertion order
    emitted,        \* what the last operation wrote to outputChannel
    thrown,         \* the exception the last operation ended with, or "none"
    lastOp,         \* the last operation and what it started from
    document,       \* the lines of the active editor's document
    decorations,    \* level name -> the line numbers given to setDecorations
    statusBar,      \* statusBarItem: shown or hidden, and the three counts
    lastIndex,      \* the lastIndex of each pattern of logLevels
    disposed,       \* whether the decoration types of logLevels are disposed
    quickPick       \* whether filterByLevel waits for its quick pick

scanVars == <<document, decorations, statusBar, lastIndex>>
vars == <<files, watchers, tailWatchers, emitted, thrown, lastOp,
          document, decorations, statusBar, lastIndex, disposed, quickPick>>

\* ------------------------------------------------------------------ bounds
MaxBytes == 2       \* bytes in all the files together
MaxWatchers == 2    \* watchers alive at once
MaxLines == 2       \* lines of a document

Paths == {"a.log", "b.log"}
\* The bytes other processes write: 'a' and 0xC3, the lead byte of a two-byte
\* sequence (well-formed only when a continuation byte follows it)
FileBytes == {97, 195}
WatcherIds == 1..MaxWatchers

NoWatcher == 0
Truncation == -1

\* ------------------------------------------------ buffer.toString('utf-8')
\* The UTF-8 decoder of buffer.toString: one code point per well-formed
\* sequence, U+FFFD per maximal ill-formed subpart; the byte that ends an
\* ill-formed sequence is decoded again on its own.
RECURSIVE Utf8DecodeFrom(_, _, _, _, _, _, _)
Utf8DecodeFrom(bs, i, cp, seen, needed, lower, upper) ==
    IF i > Len(bs)
    THEN IF needed # 0 THEN <<65533>> ELSE <<>>
    ELSE LET b == bs[i] IN
         IF needed = 0
         THEN CASE b <= 127 -> <<b>> \o Utf8DecodeFrom(bs, i + 1, 0, 0, 0, 128, 191)
                [] b >= 194 /\ b <= 223 ->
                     Utf8DecodeFrom(bs, i + 1, b - 192, 0, 1, 128, 191)
                [] b >= 224 /\ b <= 239 ->
                     Utf8DecodeFrom(bs, i + 1, b - 224, 0, 2,
                                    IF b = 224 THEN 160 ELSE 128,
                                    IF b = 237 THEN 159 ELSE 191)
                [] b >= 240 /\ b <= 244 ->
                     Utf8DecodeFrom(bs, i + 1, b - 240, 0, 3,
                                    IF b = 240 THEN 144 ELSE 128,
                                    IF b = 244 THEN 143 ELSE 191)
                [] OTHER -> <<65533>> \o Utf8DecodeFrom(bs, i + 1, 0, 0, 0, 128, 191)
         ELSE IF b < lower \/ b > upper
              THEN <<65533>> \o Utf8DecodeFrom(bs, i, 0, 0, 0, 128, 191)
              ELSE LET cp2 == cp * 64 + (b - 128) IN
                   IF seen + 1 = needed
                   THEN <<cp2>> \o Utf8DecodeFrom(bs, i + 1, 0, 0, 0, 128, 191)
                   ELSE Utf8DecodeFrom(bs, i + 1, cp2, seen + 1, needed, 128, 191)

Utf8Decode(bs) == Utf8DecodeFrom(bs, 1, 0, 0, 0, 128, 191)

\* ------------------------------------------------------------ file system
Exists(p) == files[p].exists

Absent == [exists |-> FALSE, data |-> <<>>]
Present(data) == [exists |-> TRUE, data |-> data]

BytesOnDisk == LET RECURSIVE Sum(_)
                   Sum(ps) == IF ps = {} THEN 0
                              ELSE LET p == CHOOSE p \in ps : TRUE
                                   IN  Len(files[p].data) + Sum(ps \ {p})
               IN  Sum(Paths)

\* fs.statSync(filePath).size
StatSize(p) == Len(files[p].data)

\* fs.readSync(fd, buffer, 0, buffer.length, position) on a file that holds
\* data: the bytes it reads, at most length of them and none behind the end
ReadSync(data, position, length) ==
    IF position >= Len(data) THEN <<>>
    ELSE SubSeq(data, position + 1,
                IF position + length < Len(data) THEN position + length ELSE Len(data))

\* The bytes a read of the file p gives as the file is now
ReadBytes(p, position, length) == ReadSync(files[p].data, position, length)

\* Buffer.alloc(length), zero-filled, after readSync wrote what it read into it
BufferAfterRead(data, position, length) ==
    LET bytes == ReadSync(data, position, length)
    IN  bytes \o [i \in 1..(length - Len(bytes)) |-> 0]

\* --------------------------------------------------------------- registry
\* tailWatchers.has(filePath)
Has(p) == \E i \in 1..Len(tailWatchers) : tailWatchers[i].path = p

\* tailWatchers.get(filePath)
Get(p) == LET i == CHOOSE i \in 1..Len(tailWatchers) : tailWatchers[i].path = p
          IN  tailWatchers[i].watcher

\* A delete that removes nothing
WithoutNothing(m, p) == m

RECURSIVE Without(_, _)
\* tailWatchers.delete(filePath): the other entries keep their order
Without(m, p) ==
    IF m = <<>> THEN <<>>
    ELSE IF Head(m).path = p THEN Without(Tail(m), p)
         ELSE <<Head(m)>> \o Without(Tail(m), p)

\* tailWatchers.set(filePath, watcher): a new key goes last, a known key keeps
\* its place and takes the new value
MapSet(m, p, w) ==
    IF \E i \in 1..Len(m) : m[i].path = p
    THEN [i \in 1..Len(m) |-> IF m[i].path = p THEN [path |-> p, watcher |-> w] ELSE m[i]]
    ELSE Append(m, [path |-> p, watcher |-> w])

\* The watchers the Map refers to
Referenced(m) == {m[i].watcher : i \in 1..Len(m)}

\* A watcher object lives while it is open or the Map still refers to it.
Collect(ws, m) ==
    LET live == {w \in DOMAIN ws : ~ws[w].closed \/ w \in Referenced(m)}
    IN  [w \in live |-> ws[w]]

\* The registry as the operations see it: the watcher of each tailed path and
\* the lastSize its callback holds.
Registry ==
    [p \in Paths |->
        IF Has(p) THEN [watcher |-> Get(p), lastSize |-> watchers[Get(p)].lastSize]
        ELSE [watcher |-> NoWatcher, lastSize |-> -1]]

\* The two teardown paths
Teardowns == {"dispose", "deactivate"}

\* twice: for a tailFile(p) that follows a tailFile(p) directly, whether p was
\* tailed before the first of the two ("tailed", "untailed"); for a teardown
\* that follows a teardown which found watchers in the Map, "torn"; else "no".
\* missed: for a tailFile(p), whether p was stopped and then grew just before.
OpRecord(op, p, w, offset, size, failing) ==
    [op |-> op, path |-> p, watcher |-> w, offset |-> offset, size |-> size,
     wasTailed |-> (p \in Paths /\ Has(p)), failing |-> failing,
     twice |-> IF op = "tailFile" /\ lastOp.op = "tailFile" /\ lastOp.path = p
               THEN (IF lastOp.wasTailed THEN "tailed" ELSE "untailed")
               ELSE IF op \in Teardowns /\ lastOp.op \in Teardowns /\ lastOp.size > 0
               THEN "torn"
               ELSE "no",
     missed |-> (op = "tailFile" /\ lastOp.op = "missed" /\ lastOp.path = p)]

NoOp == [op |-> "init", path |-> "", watcher |-> NoWatcher, offset |-> -1, size |-> -1,
         wasTailed |-> FALSE, failing |-> {}, twice |-> "no", missed |-> FALSE]

\* ----------------------------------------------------------------- events
Event(type, p, payload, from, len) ==
    [type |-> type, path |-> p, payload |-> payload, from |-> from, len |-> len]

\* const newContent = buffer.toString('utf-8'); outputChannel.append(newContent)
\* for a read of len bytes at from in a file that holds data
AppendedOf(data, p, from, len) ==
    Event("Appended", p, Utf8Decode(BufferAfterRead(data, from, len)), from, len)

\* The Appended event of a read of the file p as it is now
Appended(p, from, len) == AppendedOf(files[p].data, p, from, len)
\* outputChannel.appendLine('\n--- Log file was truncated ---\n')
Truncated(p) == Event("Truncated", p, <<>>, 0, 0)
\* outputChannel.clear()
Cleared == Event("Cleared", "", <<>>, 0, 0)
\* outputChannel.appendLine(`=== Tailing ${basename} ===\n`)
Header(p) == Event("Header", p, <<>>, 0, 0)

\* ------------------------------------------------------------ the patterns
\* A pattern is a sequence of nodes: a word boundary (\b), or alternatives
\* tried in order, each a sequence of characters (the empty alternative last
\* makes the node optional and greedy). Letters are written folded, as the i
\* flag compares them.
WordBoundary == [kind |-> "b", alts |-> <<>>]
Alt(alts) == [kind |-> "alt", alts |-> alts]

UpperToLower ==
    [A |-> "a", B |-> "b", C |-> "c", D |-> "d", E |-> "e", F |-> "f", G |-> "g",
     H |-> "h", I |-> "i", J |-> "j", K |-> "k", L |-> "l", M |-> "m", N |-> "n",
     O |-> "o", P |-> "p", Q |-> "q", R |-> "r", S |-> "s", T |-> "t", U |-> "u",
     V |-> "v", W |-> "w", X |-> "x", Y |-> "y", Z |-> "z"]

\* A comparison that tells upper case from lower case
FoldNothing(c) == c

\* The i flag: letters compare without case
Fold(c) == IF c \in DOMAIN UpperToLower THEN UpperToLower[c] ELSE c

\* \w
WordChars ==
    DOMAIN UpperToLower \cup {UpperToLower[c] : c \in DOMAIN UpperToLower}
    \cup {"0", "1", "2", "3", "4", "5", "6", "7", "8", "9", "_"}

\* initializeLogLevels: the levels in priority order, each with its patterns:
\* /\b(A|B)\b/gi, /\[A\]/gi and /level[=:]"?a"?/gi
logLevels == <<
    [name |-> "ERROR", patterns |-> <<
        <<WordBoundary, Alt(<<<<"e", "r", "r", "o", "r">>,
                              <<"f", "a", "t", "a", "l">>,
                              <<"c", "r", "i", "t", "i", "c", "a", "l">>,
                              <<"s", "e", "v", "e", "r", "e">>>>), WordBoundary>>,
        <<Alt(<<<<"[", "e", "r", "r", "o", "r", "]">>>>)>>,
        <<Alt(<<<<"l", "e", "v", "e", "l">>>>),
         Alt(<<<<"=">>, <<":">>>>),
         Alt(<<<<"\"">>, <<>>>>),
         Alt(<<<<"e", "r", "r", "o", "r">>>>),
         Alt(<<<<"\"">>, <<>>>>)>>>>],
    [name |-> "WARN", patterns |-> <<
        <<WordBoundary, Alt(<<<<"w", "a", "r", "n">>,
                              <<"w", "a", "r", "n", "i", "n", "g">>>>), WordBoundary>>,
        <<Alt(<<<<"[", "w", "a", "r", "n">>>>),
         Alt(<<<<"i", "n", "g">>, <<>>>>),
         Alt(<<<<"]">>>>)>>,
        <<Alt(<<<<"l", "e", "v", "e", "l">>>>),
         Alt(<<<<"=">>, <<":">>>>),
         Alt(<<<<"\"">>, <<>>>>),
         Alt(<<<<"w", "a", "r", "n">>>>),
         Alt(<<<<"i", "n", "g">>, <<>>>>),
         Alt(<<<<"\"">>, <<>>>>)>>>>],
    [name |-> "INFO", patterns |-> <<
        <<WordBoundary, Alt(<<<<"i", "n", "f", "o">>>>), WordBoundary>>,
        <<Alt(<<<<"[", "i", "n", "f", "o", "]">>>>)>>,
        <<Alt(<<<<"l", "e", "v", "e", "l">>>>),
         Alt(<<<<"=">>, <<":">>>>),
         Alt(<<<<"\"">>, <<>>>>),
         Alt(<<<<"i", "n", "f", "o">>>>),
         Alt(<<<<"\"">>, <<>>>>)>>>>],
    [name |-> "DEBUG", patterns |-> <<
        <<WordBoundary, Alt(<<<<"d", "e", "b", "u", "g">>,
                              <<"t", "r", "a", "c", "e">>,
                              <<"v", "e", "r", "b", "o", "s", "e">>>>), WordBoundary>>,
        <<Alt(<<<<"[", "d", "e", "b", "u", "g", "]">>>>)>>,
        <<Alt(<<<<"l", "e", "v", "e", "l">>>>),
         Alt(<<<<"=">>, <<":">>>>),
         Alt(<<<<"\"">>, <<>>>>),
         Alt(<<<<"d", "e", "b", "u", "g">>>>),
         Alt(<<<<"\"">>, <<>>>>)>>>>] >>

LevelNames == {logLevels[k].name : k \in 1..Len(logLevels)}
PatternKeys == {<<k, j>> : k \in 1..Len(logLevels), j \in 1..3}

\* updateStatusBar's own patterns (no g flag, so no lastIndex)
statusErrorPattern ==
    <<WordBoundary, Alt(<<<<"e", "r", "r", "o", "r">>,
                          <<"f", "a", "t", "a", "l">>,
                          <<"c", "r", "i", "t", "i", "c", "a", "l">>>>), WordBoundary>>
statusWarnPattern ==
    <<WordBoundary, Alt(<<<<"w", "a", "r", "n">>,
                          <<"w", "a", "r", "n", "i", "n", "g">>>>), WordBoundary>>
statusInfoPattern == <<WordBoundary, Alt(<<<<"i", "n", "f", "o">>>>), WordBoundary>>

\* ------------------------------------------------------- RegExp matching
\* Positions count the characters before them: 0 is the start of the line.
IsWordAt(line, i) == i >= 1 /\ i <= Len(line) /\ line[i] \in WordChars

\* \b at pos: exactly one of the characters around pos is a word character
Boundary(line, pos) == IsWordAt(line, pos) # IsWordAt(line, pos + 1)

\* The characters of alternative a are in the line at pos
Here(line, pos, a) ==
    /\ pos + Len(a) <= Len(line)
    /\ \A i \in 1..Len(a) : Fold(line[pos + i]) = a[i]

RECURSIVE MatchAt(_, _, _, _)
RECURSIVE AltsAt(_, _, _, _, _)
\* The ends of the matches of nodes k.. at pos, in the backtracking order
MatchAt(nodes, k, line, pos) ==
    IF k > Len(nodes) THEN <<pos>>
    ELSE IF nodes[k].kind = "b"
         THEN IF Boundary(line, pos) THEN MatchAt(nodes, k + 1, line, pos) ELSE <<>>
         ELSE AltsAt(nodes, k, line, pos, 1)

AltsAt(nodes, k, line, pos, a) ==
    IF a > Len(nodes[k].alts) THEN <<>>
    ELSE (IF Here(line, pos, nodes[k].alts[a])
          THEN MatchAt(nodes, k + 1, line, pos + Len(nodes[k].alts[a]))
          ELSE <<>>)
         \o AltsAt(nodes, k, line, pos, a + 1)

RECURSIVE ExecFrom(_, _, _)
\* RegExp.prototype.exec from lastIndex: the leftmost match at or after it.
\* The result is whether it matched and the lastIndex a g pattern is left with.
ExecFrom(pattern, line, pos) ==
    IF pos > Len(line) THEN [matched |-> FALSE, lastIndex |-> 0]
    ELSE LET ends == MatchAt(pattern, 1, line, pos) IN
         IF ends # <<>> THEN [matched |-> TRUE, lastIndex |-> Head(ends)]
         ELSE ExecFrom(pattern, line, pos + 1)

Exec(pattern, line, from) == ExecFrom(pattern, line, from)

\* pattern.test(line) of a pattern without the g flag
Test(pattern, line) == Exec(pattern, line, 0).matched

\* --------------------------------------------------------- applyHighlights
\* A loop that leaves the pattern's lastIndex where the last test put it
KeepLastIndex(li, key) == li

\* pattern.lastIndex = 0
ResetLastIndex(li, key) == [li EXCEPT ![key] = 0]

RECURSIVE TestPatterns(_, _, _, _)
\* for (const pattern of level.patterns) { pattern.lastIndex = 0;
\*   if (pattern.test(lineText)) { push; break; } }
\* from pattern j on: whether one matched, and the lastIndex values left
TestPatterns(k, j, line, li) ==
    IF j > Len(logLevels[k].patterns) THEN [matched |-> FALSE, li |-> li]
    ELSE LET li0 == ResetLastIndex(li, <<k, j>>)
             r == Exec(logLevels[k].patterns[j], line, li0[<<k, j>>])
             li2 == [li0 EXCEPT ![<<k, j>>] = r.lastIndex]
         IN  IF r.matched THEN [matched |-> TRUE, li |-> li2]
             ELSE TestPatterns(k, j + 1, line, li2)

RECURSIVE HighlightLines(_, _, _, _, _)
\* for (lineNum = 0; lineNum < lineCount; lineNum++): the decorations of level
\* k (0-based line numbers, in push order) and the lastIndex values left
HighlightLines(k, doc, n, acc, li) ==
    IF n > Len(doc) THEN [decorations |-> acc, li |-> li]
    ELSE LET r == TestPatterns(k, 1, doc[n], li)
         IN  HighlightLines(k, doc, n + 1,
                            IF r.matched THEN Append(acc, n - 1) ELSE acc, r.li)

RECURSIVE HighlightLevels(_, _, _, _)
\* for (const level of logLevels) { ...; editor.setDecorations(type, decorations) }
HighlightLevels(k, doc, decs, li) ==
    IF k > Len(logLevels) THEN [decorations |-> decs, li |-> li]
    ELSE LET r == HighlightLines(k, doc, 1, <<>>, li)
         IN  HighlightLevels(k + 1, doc,
                             [decs EXCEPT ![logLevels[k].name] = r.decorations], r.li)

applyHighlights(doc) == HighlightLevels(1, doc, decorations, lastIndex)

\* --------------------------------------------------------- updateStatusBar
RECURSIVE CountLines(_, _, _)
\* if (error pattern) errorCount++; else if (warn pattern) warnCount++;
\* else if (info pattern) infoCount++;
CountLines(doc, n, c) ==
    IF n > Len(doc) THEN c
    ELSE CountLines(doc, n + 1,
            IF Test(statusErrorPattern, doc[n])
            THEN [c EXCEPT !.errorCount = @ + 1]
            ELSE IF Test(statusWarnPattern, doc[n])
            THEN [c EXCEPT !.warnCount = @ + 1]
            ELSE IF Test(statusInfoPattern, doc[n])
            THEN [c EXCEPT !.infoCount = @ + 1]
            ELSE c)

updateStatusBar(doc) ==
    CountLines(doc, 1, [shown |-> TRUE, errorCount |-> 0, warnCount |-> 0, infoCount |-> 0])

\* ----------------------------------------------------------- filterByLevel
\* The label of showQuickPick's last item, and a dismissed quick pick
AllLevels == "All Levels"
Dismissed == ""
FilterChoices == LevelNames \cup {AllLevels}

\* logLevels.find(l => l.name === level)
FindLevel(level) == CHOOSE k \in 1..Len(logLevels) : logLevels[k].name = level

DecimalDigits == <<"0", "1", "2", "3", "4", "5", "6", "7", "8", "9">>

RECURSIVE Decimal(_)
\* `${n}` of a number n >= 0
Decimal(n) ==
    IF n < 10 THEN <<DecimalDigits[n + 1]>>
    ELSE Append(Decimal(n \div 10), DecimalDigits[(n % 10) + 1])

\* A label that numbers the lines from 0
LabelZeroBased(i, line) == <<"[">> \o Decimal(i) \o <<"]", " ">> \o line

\* `[${i + 1}] ${line}` for the line at index i (from 0)
Label(i, line) == <<"[">> \o Decimal(i + 1) \o <<"]", " ">> \o line

RECURSIVE FilterPatterns(_, _, _, _)
\* for (const pattern of patterns) { pattern.lastIndex = 0;
\*   if (pattern.test(line)) { filteredLines.push(...); break; } }
FilterPatterns(k, j, line, li) ==
    IF j > Len(logLevels[k].patterns) THEN [matched |-> FALSE, li |-> li]
    ELSE LET li0 == ResetLastIndex(li, <<k, j>>)
             r == Exec(logLevels[k].patterns[j], line, li0[<<k, j>>])
             li2 == [li0 EXCEPT ![<<k, j>>] = r.lastIndex]
         IN  IF r.matched THEN [matched |-> TRUE, li |-> li2]
             ELSE FilterPatterns(k, j + 1, line, li2)

RECURSIVE FilterLines(_, _, _, _, _)
\* for (let i = 0; i < document.lineCount; i++): filteredLines and the
\* lastIndex values left
FilterLines(level, doc, n, acc, li) ==
    IF n > Len(doc) THEN [filteredLines |-> acc, li |-> li]
    ELSE IF level = AllLevels
         THEN FilterLines(level, doc, n + 1, Append(acc, doc[n]), li)
         ELSE LET r == FilterPatterns(FindLevel(level), 1, doc[n], li)
              IN  FilterLines(level, doc, n + 1,
                              IF r.matched THEN Append(acc, Label(n - 1, doc[n])) ELSE acc,
                              r.li)

\* outputChannel.appendLine(`=== Filtered: ${level} (${filteredLines.length} lines) ===\n`)
Filtered(level, count) == Event("Filtered", level, Decimal(count), 0, count)
\* filteredLines.forEach(line => outputChannel.appendLine(line))
OutputLines(filteredLines) ==
    [i \in 1..Len(filteredLines) |-> Event("Line", "", filteredLines[i], 0, 0)]

\* ------------------------------------------------------- the scan's inputs
\* ERROR x
LineError == <<"E", "R", "R", "O", "R", " ", "x">>
\* SEVERE
LineSevere == <<"S", "E", "V", "E", "R", "E">>
\* severe INFO
LineSevereInfo == <<"s", "e", "v", "e", "r", "e", " ", "I", "N", "F", "O">>
\* INFO ERROR
LineInfoError == <<"I", "N", "F", "O", " ", "E", "R", "R", "O", "R">>
\* [Warning]
LineBracketWarn == <<"[", "W", "a", "r", "n", "i", "n", "g", "]">>
\* level="errors
LineKvErrors == <<"l", "e", "v", "e", "l", "=", "\"", "e", "r", "r", "o", "r", "s">>
\* trace
LineDebug == <<"t", "r", "a", "c", "e">>
\* ok
LinePlain == <<"o", "k">>

\* The lines of the documents that grow
Lines == {LineError, LineSevere, LineSevereInfo, LineDebug, LinePlain}

RECURSIVE SeqsUpTo(_, _)
SeqsUpTo(S, n) ==
    IF n = 0 THEN {<<>>}
    ELSE LET shorter == SeqsUpTo(S, n - 1)
         IN  shorter \cup {Append(d, x) : d \in shorter, x \in S}

Documents == SeqsUpTo(Lines, MaxLines)

NoDecorations == [name \in LevelNames |-> <<>>]
Hidden == [shown |-> FALSE, errorCount |-> 0, warnCount |-> 0, infoCount |-> 0]
NoLastIndex == [key \in PatternKeys |-> 0]

\* ------------------------------------------------------ the scan's actions
\* A scan operation ends: the tail state stays, nothing was written to the
\* output channel, the history names the operation.
ScanEnds(op) ==
    /\ lastOp' = OpRecord(op, "", NoWatcher, -1, -1, {})
    /\ emitted' = <<>>
    /\ UNCHANGED <<files, watchers, tailWatchers, thrown, disposed>>

\* What applyHighlights and updateStatusBar leave for the document doc; a
\* setDecorations with a disposed decoration type decorates nothing
Scanned(doc) ==
    LET r == applyHighlights(doc) IN
    /\ decorations' = IF disposed THEN NoDecorations ELSE r.decorations
    /\ lastIndex' = r.li
    /\ statusBar' = updateStatusBar(doc)

\* onDidChangeActiveTextEditor with the log file: applyHighlights, updateStatusBar
ActiveEditorChanged ==
    /\ ~statusBar.shown
    /\ UNCHANGED <<document, quickPick>>
    /\ Scanned(document)
    /\ ScanEnds("scan")

\* onDidChangeActiveTextEditor with no editor or no log file: statusBarItem.hide()
ActiveEditorLeft ==
    /\ statusBar.shown
    /\ statusBar' = [statusBar EXCEPT !.shown = FALSE]
    /\ UNCHANGED <<document, decorations, lastIndex, quickPick>>
    /\ ScanEnds("hide")

\* onDidChangeTextDocument of the log file, here a line added at the end:
\* applyHighlights and updateStatusBar when the log file is in the active
\* editor; with another editor active, or none, the handler does nothing and
\* the decorations and the counts stay those of the old text.
TextDocumentChanged(line) ==
    /\ Len(document) < MaxLines
    /\ document' = Append(document, line)
    /\ UNCHANGED quickPick
    /\ IF statusBar.shown
       THEN Scanned(Append(document, line))
       ELSE UNCHANGED <<decorations, statusBar, lastIndex>>
    /\ ScanEnds("scan")

\* clearHighlights: setDecorations(type, []) for every level, in the active
\* editor. With the log file in the active editor that takes its decorations;
\* with no active editor, or another one, the log file's decorations stay.
clearHighlights ==
    /\ decorations' = IF statusBar.shown THEN NoDecorations ELSE decorations
    /\ UNCHANGED <<document, statusBar, lastIndex, quickPick>>
    /\ ScanEnds("clear")

\* filterByLevel up to its await: without a log file in the active editor it
\* warns and returns; else it opens the quick pick and leaves the rest to a
\* later turn of the event loop. A quick pick that was still open is
\* dismissed by the new one, and the call that waited for it returns.
filterByLevel ==
    /\ quickPick' = (statusBar.shown \/ quickPick)
    /\ UNCHANGED <<scanVars, disposed>>
    /\ UNCHANGED <<files, watchers, tailWatchers, thrown>>
    /\ emitted' = <<>>
    /\ lastOp' = OpRecord("filterByLevel", "", NoWatcher, -1, -1, {})

\* filterByLevel after its await, with the item picked: with the quick pick
\* dismissed it returns; else it tests every line of the document of the
\* editor it was called on against the patterns of the chosen level and
\* writes the header and the lines it kept.
filterByLevelResumed(level) ==
    /\ quickPick
    /\ quickPick' = FALSE
    /\ UNCHANGED <<document, decorations, statusBar, disposed>>
    /\ UNCHANGED <<files, watchers, tailWatchers, thrown>>
    /\ lastOp' = OpRecord("filter", level, NoWatcher, -1, -1, {})
    /\ IF level = Dismissed
       THEN emitted' = <<>> /\ UNCHANGED lastIndex
       ELSE LET r == FilterLines(level, document, 1, <<>>, lastIndex) IN
            /\ lastIndex' = r.li
            /\ emitted' = <<Cleared, Filtered(level, Len(r.filteredLines))>>
                              \o OutputLines(r.filteredLines)

NextScan ==
    \/ ActiveEditorChanged
    \/ ActiveEditorLeft
    \/ \E line \in Lines : TextDocumentChanged(line)
    \/ clearHighlights
    \/ filterByLevel
    \/ \E level \in FilterChoices \cup {Dismissed} : filterByLevelResumed(level)

\* Right after activate, no log file in the active editor yet; the document
\* the editor will show is any of Documents.
InitScan ==
    /\ document \in Documents
    /\ decorations = NoDecorations
    /\ statusBar = Hidden
    /\ lastIndex = NoLastIndex
    /\ files = [p \in Paths |-> Present(<<>>)]
    /\ watchers = <<>>
    /\ tailWatchers = <<>>
    /\ emitted = <<>>
    /\ thrown = "none"
    /\ lastOp = NoOp
    /\ disposed = FALSE
    /\ quickPick = FALSE

SpecScan == InitScan /\ [][NextScan]_vars

\* ------------------------------------------ the scan of one-line documents
\* FATAL
LineFatal == <<"F", "A", "T", "A", "L">>
\* critical:
LineCritical == <<"c", "r", "i", "t", "i", "c", "a", "l", ":">>
\* a Severe.
LineSevereMixed == <<"a", " ", "S", "e", "v", "e", "r", "e", ".">>
\* eRRoR
LineErrorMixed == <<"e", "R", "R", "o", "R">>
\* x-fatal-y
LineHyphens == <<"x", "-", "f", "a", "t", "a", "l", "-", "y">>
\* ERRORS
LineErrors == <<"E", "R", "R", "O", "R", "S">>
\* terror
LineTerror == <<"t", "e", "r", "r", "o", "r">>
\* fatal_1
LineUnderscore == <<"f", "a", "t", "a", "l", "_", "1">>

WordLines ==
    {LineFatal, LineCritical, LineSevereMixed, LineErrorMixed, LineHyphens,
     LineErrors, LineTerror, LineUnderscore, LineInfoError, LineBracketWarn,
     LineKvErrors}

\* Right after activate, with a one-line document for the editor to show
InitWords ==
    /\ document \in {<<line>> : line \in WordLines \cup Lines}
    /\ decorations = NoDecorations
    /\ statusBar = Hidden
    /\ lastIndex = NoLastIndex
    /\ files = [p \in Paths |-> Present(<<>>)]
    /\ watchers = <<>>
    /\ tailWatchers = <<>>
    /\ emitted = <<>>
    /\ thrown = "none"
    /\ lastOp = NoOp
    /\ disposed = FALSE
    /\ quickPick = FALSE

\* The operations that leave the document as it is
NextWords ==
    \/ ActiveEditorChanged
    \/ ActiveEditorLeft
    \/ clearHighlights
    \/ filterByLevel
    \/ \E level \in FilterChoices \cup {Dismissed} : filterByLevelResumed(level)

SpecWords == InitWords /\ [][NextWords]_vars

\* ------------------------------------------------------------------- Init
\* Right after activate: no watcher, an empty Map; the log files exist.
Init ==
    /\ document = <<>>
    /\ decorations = NoDecorations
    /\ statusBar = Hidden
    /\ lastIndex = NoLastIndex
    /\ files \in [Paths -> {Present(<<>>), Present(<<97>>)}]
    /\ watchers = <<>>
    /\ tailWatchers = <<>>
    /\ emitted = <<>>
    /\ thrown = "none"
    /\ lastOp = NoOp
    /\ disposed = FALSE
    /\ quickPick = FALSE

\* What an operation wrote, what it threw, and the history
EndsWith(op, out, err) ==
    /\ emitted' = out
    /\ thrown' = err
    /\ lastOp' = op

\* A tail operation ends: it leaves the editor's state as it is.
Ends(op, out, err) ==
    /\ EndsWith(op, out, err)
    /\ UNCHANGED <<scanVars, disposed, quickPick>>

\* ------------------------------------------------- the environment's moves
EnvOp == OpRecord("env", "", NoWatcher, -1, -1, {})

\* The log of a session whose file did not only grow
Void == <<-1>>

\* The history of the watchers after the file p lost bytes: the log records
\* the payloads of a session only while its file only grows.
Shrunk(ws, p) ==
    [w \in DOMAIN ws |-> IF ws[w].path = p THEN [ws[w] EXCEPT !.log = Void] ELSE ws[w]]

\* The last operation stopped the session of p
JustStopped(p) ==
    lastOp.op = "tailFile" /\ lastOp.path = p /\ lastOp.wasTailed /\ thrown = "none"

\* Another process appends one byte to the file. The history tells a byte
\* appended right after the session of p was stopped ("missed").
AppendByte(p, b) ==
    /\ Exists(p)
    /\ BytesOnDisk < MaxBytes
    /\ files' = [files EXCEPT ![p].data = Append(@, b)]
    /\ UNCHANGED <<watchers, tailWatchers>>
    /\ Ends(IF JustStopped(p) THEN OpRecord("missed", p, NoWatcher, -1, -1, {}) ELSE EnvOp,
            <<>>, "none")

\* Another process truncates the file to s bytes (log rotation in place).
TruncateFile(p, s) ==
    /\ Exists(p)
    /\ s < Len(files[p].data)
    /\ files' = [files EXCEPT ![p].data = SubSeq(@, 1, s)]
    /\ watchers' = Shrunk(watchers, p)
    /\ UNCHANGED tailWatchers
    /\ Ends(EnvOp, <<>>, "none")

\* The file is deleted.
DeleteFile(p) ==
    /\ Exists(p)
    /\ files' = [files EXCEPT ![p] = Absent]
    /\ watchers' = Shrunk(watchers, p)
    /\ UNCHANGED tailWatchers
    /\ Ends(EnvOp, <<>>, "none")

\* The file is created again, empty.
CreateFile(p) ==
    /\ ~Exists(p)
    /\ files' = [files EXCEPT ![p] = Present(<<>>)]
    /\ UNCHANGED <<watchers, tailWatchers>>
    /\ Ends(EnvOp, <<>>, "none")

\* ---------------------------------------------------------------- tailFile
\* A tailFile that never takes the stop branch
IsTailingNever(p) == FALSE

\* if (tailWatchers.has(filePath)): stop, else start
IsTailing(p) == Has(p)

\* A session that starts reading at the start of the file
InitialOffsetZero(p) == 0

\* let lastSize = fs.statSync(filePath).size
InitialOffset(p) == StatSize(p)

\* fs.watch(filePath, callback): a new watcher whose callback closes over
\* lastSize. startSize records the file's size when the session started,
\* until the session sees a truncation (Truncation from then on); sent
\* records, until then, how many bytes its Appended events read, and log the
\* payloads they carried, in the order of emission, while the file only grew.
NewWatcher(p) ==
    [path |-> p, lastSize |-> InitialOffset(p), closed |-> FALSE,
     startSize |-> StatSize(p), sent |-> 0, log |-> <<>>]

FreshId == CHOOSE w \in WatcherIds :
               w \notin DOMAIN watchers /\ \A v \in 1..(w - 1) : v \in DOMAIN watchers

\* A close that leaves the watcher open
CloseWatcherNot(ws, w) == ws

\* watcher.close(): closing a closed watcher does nothing
CloseWatcher(ws, w) == [ws EXCEPT ![w].closed = TRUE]

\* tailWatchers.get(filePath)?.close(); tailWatchers.delete(filePath); return.
\* A close that throws (closeThrows) leaves tailFile before the delete.
TailFileStop(p, closeThrows) ==
    /\ IsTailing(p)
    /\ UNCHANGED files
    /\ IF closeThrows
       THEN /\ UNCHANGED <<watchers, tailWatchers>>
            /\ Ends(OpRecord("tailFile", p, Get(p), -1, -1, {Get(p)}), <<>>, "close")
       ELSE /\ tailWatchers' = Without(tailWatchers, p)
            /\ watchers' = Collect(CloseWatcher(watchers, Get(p)), tailWatchers')
            /\ Ends(OpRecord("tailFile", p, Get(p), -1, -1, {}), <<>>, "none")

\* statSync, fs.watch, tailWatchers.set, outputChannel.clear and the header.
\* statSync throws when the file does not exist.
TailFileStart(p) ==
    /\ ~IsTailing(p)
    /\ \E w \in WatcherIds : w \notin DOMAIN watchers
    /\ UNCHANGED files
    /\ IF ~Exists(p)
       THEN /\ UNCHANGED <<watchers, tailWatchers>>
            /\ Ends(OpRecord("tailFile", p, NoWatcher, -1, -1, {}), <<>>, "ENOENT")
       ELSE /\ watchers' = [w \in DOMAIN watchers \cup {FreshId} |->
                               IF w = FreshId THEN NewWatcher(p) ELSE watchers[w]]
            /\ tailWatchers' = MapSet(tailWatchers, p, FreshId)
            /\ Ends(OpRecord("tailFile", p, FreshId, -1, StatSize(p), {}),
                    <<Cleared, Header(p)>>, "none")

\* ------------------------------------------------- the fs.watch callback
\* A growth test that also takes an unchanged size
GrewOrSame(size, lastSize) == size >= lastSize

\* if (stats.size > lastSize)
Grew(size, lastSize) == size > lastSize
\* else if (stats.size < lastSize)
Shrank(size, lastSize) == size < lastSize

\* A read one byte short
ReadLengthShort(size, lastSize) == size - lastSize - 1

\* Buffer.alloc(stats.size - lastSize); readSync(fd, buffer, 0, buffer.length, lastSize)
ReadLength(size, lastSize) == size - lastSize

\* A callback that leaves lastSize as it found it
SetLastSizeNever(ws, w, size) == ws

\* A lastSize that all the callbacks share
SetLastSizeShared(ws, w, size) == [v \in DOMAIN ws |-> [ws[v] EXCEPT !.lastSize = size]]

\* lastSize = stats.size, in the closure of watcher w
SetLastSize(ws, w, size) == [ws EXCEPT ![w].lastSize = size]

\* The history of watcher w after it emitted the Appended event e
Recorded(ws, w, e) ==
    IF ws[w].startSize = Truncation THEN ws
    ELSE [ws EXCEPT ![w].sent = @ + e.len,
                    ![w].log = IF @ = Void THEN Void ELSE @ \o e.payload]

\* The history of watcher w after it saw a truncation
Forgotten(ws, w) == [ws EXCEPT ![w].startSize = Truncation, ![w].sent = 0, ![w].log = Void]

\* What another process does to the file between the callback's statSync
\* and its openSync: nothing, delete it, or leave it with other bytes (cut,
\* cut and written again, deleted and created again, written further).
NoRace == <<-1>>
Deleted == <<-2>>
Races == {NoRace, Deleted} \cup SeqsUpTo(FileBytes, MaxBytes)

\* The bytes a are the first bytes of b
IsPrefix(a, b) == Len(a) <= Len(b) /\ SubSeq(b, 1, Len(a)) = a

\* The callback of watcher w runs with eventType: statSync, then the growth
\* branch (open, read, decode, append, lastSize = size), the truncation
\* branch, or nothing. An exception leaves the callback where it is thrown:
\* statSync throws when the file does not exist, openSync when the file was
\* deleted since the stat. The read takes the bytes the file holds when it
\* is opened; a file that is shorter than the stat saw gives a short read:
\* the rest of the buffer keeps its zeros, and lastSize becomes the size the
\* stat saw.
WatchCallback(w, eventType, race) ==
    LET p == watchers[w].path
        lastSize == watchers[w].lastSize
        size == StatSize(p)
        op == OpRecord(IF eventType = "change" THEN "watch" ELSE "rename",
                       p, w, lastSize, IF Exists(p) THEN size ELSE -1, {})
    IN
    /\ ~watchers[w].closed
    /\ UNCHANGED tailWatchers
    /\ IF eventType # "change"
       THEN /\ race = NoRace
            /\ UNCHANGED <<files, watchers>>
            /\ Ends(op, <<>>, "none")
       ELSE IF ~Exists(p)
       THEN /\ race = NoRace
            /\ UNCHANGED <<files, watchers>>
            /\ Ends(op, <<>>, "ENOENT")
       ELSE IF Grew(size, lastSize)
       THEN IF race = Deleted
            THEN /\ files' = [files EXCEPT ![p] = Absent]
                 /\ watchers' = Shrunk(watchers, p)
                 /\ Ends(op, <<>>, "ENOENT")
            ELSE LET data == IF race = NoRace THEN files[p].data ELSE race
                     e == AppendedOf(data, p, lastSize, ReadLength(size, lastSize))
                     ws == Recorded(SetLastSize(watchers, w, size), w, e)
                 IN  /\ race # NoRace =>
                            /\ race # files[p].data
                            /\ BytesOnDisk - size + Len(race) <= MaxBytes
                     /\ files' = [files EXCEPT ![p].data = data]
                     /\ watchers' = IF IsPrefix(files[p].data, data) THEN ws
                                    ELSE Shrunk(ws, p)
                     /\ Ends(op, <<e>>, "none")
       ELSE IF Shrank(size, lastSize)
       THEN /\ race = NoRace
            /\ watchers' = Forgotten(SetLastSize(watchers, w, size), w)
            /\ UNCHANGED files
            /\ Ends(op, <<Truncated(p)>>, "none")
       ELSE /\ race = NoRace
            /\ UNCHANGED <<files, watchers>>
            /\ Ends(op, <<>>, "none")

\* ---------------------------------------------------------------- teardown
RECURSIVE CloseInOrder(_, _, _)
\* tailWatchers.forEach((watcher) => watcher.close()), in insertion order; a
\* close that throws ends the forEach: the result is <<watchers, threw>>.
CloseInOrder(ws, m, failing) ==
    IF m = <<>> THEN <<ws, FALSE>>
    ELSE IF Head(m).watcher \in failing THEN <<ws, TRUE>>
         ELSE CloseInOrder(CloseWatcher(ws, Head(m).watcher), Tail(m), failing)

\* A clear that leaves the entries in the Map
MapClearNothing(m) == m

\* tailWatchers.clear()
MapClear(m) == <<>>

\* tailWatchers.forEach(close); tailWatchers.clear(). The history keeps the
\* size of the Map the forEach went through.
StopAll(name, failing) ==
    LET r == CloseInOrder(watchers, tailWatchers, failing) IN
    /\ tailWatchers' = IF r[2] THEN tailWatchers ELSE MapClear(tailWatchers)
    /\ watchers' = Collect(r[1], tailWatchers')
    /\ UNCHANGED files
    /\ EndsWith(OpRecord(name, "", NoWatcher, -1, Len(tailWatchers), failing), <<>>,
                IF r[2] THEN "close" ELSE "none")

\* The cleanup disposable pushed by activate, where the closes of the
\* watchers in failing throw
DisposeWhere(failing) ==
    /\ StopAll("dispose", failing)
    /\ UNCHANGED <<scanVars, disposed, quickPick>>

\* deactivate, where the closes of the watchers in failing throw: when the
\* forEach ends without exception, logLevels.forEach(level =>
\* level.decorationType.dispose()) takes the decorations from the editor.
DeactivateWhere(failing) ==
    /\ StopAll("deactivate", failing)
    /\ UNCHANGED <<document, statusBar, lastIndex, quickPick>>
    /\ IF CloseInOrder(watchers, tailWatchers, failing)[2]
       THEN UNCHANGED <<decorations, disposed>>
       ELSE decorations' = NoDecorations /\ disposed' = TRUE

\* The cleanup disposable pushed by activate
Dispose == DisposeWhere({})

\* export function deactivate()
Deactivate == DeactivateWhere({})

\* ------------------------------------------------------------------- Next
Environment ==
    \E p \in Paths :
        \/ \E b \in FileBytes : AppendByte(p, b)
        \/ \E s \in 0..MaxBytes : TruncateFile(p, s)
        \/ DeleteFile(p)
        \/ CreateFile(p)

Next ==
    \/ Environment
    \/ \E p \in Paths : TailFileStop(p, FALSE)
    \/ \E p \in Paths : TailFileStart(p)
    \/ \E w \in DOMAIN watchers, eventType \in {"change", "rename"}, race \in Races :
           WatchCallback(w, eventType, race)
    \/ Dispose
    \/ Deactivate

Spec == Init /\ [][Next]_vars

\* The runs in which the files only grow.
NextGrow ==
    \/ \E p \in Paths, b \in FileBytes : AppendByte(p, b)
    \/ \E p \in Paths : TailFileStop(p, FALSE)
    \/ \E p \in Paths : TailFileStart(p)
    \/ \E w \in DOMAIN watchers, eventType \in {"change", "rename"} :
           WatchCallback(w, eventType, NoRace)

SpecGrow == Init /\ [][NextGrow]_vars

\* The program where watcher.close() may throw, on files that only grow.
CloseThrows ==
    \/ \E p \in Paths : TailFileStop(p, TRUE)
    \/ \E failing \in SUBSET Referenced(tailWatchers) :
           /\ failing # {}
           /\ \/ DisposeWhere(failing)
              \/ DeactivateWhere(failing)

NextFaulty ==
    \/ NextGrow
    \/ Dispose
    \/ Deactivate
    \/ CloseThrows

SpecFaulty == Init /\ [][NextFaulty]_vars

\* ------------------------------------------------------- the tail claims
\* The UTF-8 encoding of a sequence of code points
RECURSIVE Utf8Encode(_)
Utf8Encode(cps) ==
    IF cps = <<>> THEN <<>>
    ELSE LET c == Head(cps)
             bytes == IF c < 128 THEN <<c>>
                      ELSE IF c < 2048 THEN <<192 + (c \div 64), 128 + (c % 64)>>
                      ELSE IF c < 65536
                           THEN <<224 + (c \div 4096), 128 + ((c \div 64) % 64), 128 + (c % 64)>>
                           ELSE <<240 + (c \div 262144), 128 + ((c \div 4096) % 64),
                                  128 + ((c \div 64) % 64), 128 + (c % 64)>>
         IN  bytes \o Utf8Encode(Tail(cps))

\* The open watchers on path p
OpenOn(p) == {w \in DOMAIN watchers : watchers[w].path = p /\ ~watchers[w].closed}

\* The last operation was the change callback, and it saw the file
Handled == lastOp.op = "watch" /\ lastOp.size >= 0

\* The callback found the file grown, and the file it read still had the size
\* it had found (nothing shortened the file between the stat and the read)
HandledGrowth ==
    /\ Handled
    /\ thrown = "none"
    /\ lastOp.size > lastOp.offset
    /\ Len(files[lastOp.path].data) >= lastOp.size

\* C1: a change callback that finds the file grown from offset O to O + N
\* emits exactly one Appended event carrying exactly the N bytes at O .. O+N-1
\* and moves the offset to O + N; one that finds no growth emits nothing.
C1_AppendedCarriesTheBytes ==
    /\ HandledGrowth =>
          /\ Len(emitted) = 1
          /\ emitted[1].type = "Appended"
          /\ Utf8Encode(emitted[1].payload)
                = ReadBytes(lastOp.path, lastOp.offset, lastOp.size - lastOp.offset)
          /\ watchers[lastOp.watcher].lastSize = lastOp.size
    /\ (Handled /\ lastOp.size = lastOp.offset) => emitted = <<>>

\* C2: a change callback that finds the file truncated to S < O emits exactly
\* one Truncated event and sets the offset to S; the Appended event of a later
\* growth by M bytes is exactly M bytes long.
C2_TruncateThenAppend ==
    /\ (Handled /\ lastOp.size < lastOp.offset) =>
          /\ emitted = <<Truncated(lastOp.path)>>
          /\ watchers[lastOp.watcher].lastSize = lastOp.size
    /\ (HandledGrowth /\ watchers[lastOp.watcher].startSize = Truncation) =>
          /\ Len(emitted) = 1
          /\ emitted[1].type = "Appended"
          /\ Len(Utf8Encode(emitted[1].payload)) = lastOp.size - lastOp.offset

\* C3: a change callback whose stat or read fails stops the session of its
\* path: the watcher is closed and the path leaves the registry.
C3_FailureStopsSession ==
    (lastOp.op = "watch" /\ thrown # "none") =>
        /\ ~Has(lastOp.path)
        /\ OpenOn(lastOp.path) = {}

\* C4: after teardown the Map is empty and every watcher whose close did not
\* fail is closed, whichever closes failed.
C4_TeardownSurvivesFailingClose ==
    (lastOp.op \in {"dispose", "deactivate"}) =>
        /\ tailWatchers = <<>>
        /\ \A w \in DOMAIN watchers : w \notin lastOp.failing => watchers[w].closed

\* C5: a path is in the registry exactly when it has one open watcher, the
\* registry refers to that watcher, and no path has two open watchers.
C5_OneSessionPerPath ==
    \A p \in Paths :
        /\ Cardinality(OpenOn(p)) <= 1
        /\ Has(p) <=> Cardinality(OpenOn(p)) = 1
        /\ Has(p) => OpenOn(p) = {Get(p)}
        /\ Cardinality({i \in 1..Len(tailWatchers) : tailWatchers[i].path = p}) <= 1

\* A tailFile on a tailed path stopped it while the other path stays tailed
C5_Witness ==
    /\ lastOp.op = "tailFile" /\ lastOp.wasTailed
    /\ ~Has(lastOp.path)
    /\ \E q \in Paths : Has(q)

\* C6 as claimed: after two consecutive tailFile calls on a path, the path is
\* in the registry exactly if it was before the first.
C6_ToggleTwiceRestores ==
    (lastOp.op = "tailFile" /\ lastOp.twice # "no") =>
        (Has(lastOp.path) <=> lastOp.twice = "tailed")

\* C6 as amended: two consecutive tailFile calls on a path that was not tailed
\* leave it without entry and without open watcher; on a path that was tailed
\* they leave it tailed exactly if the file still exists, by a new watcher
\* whose offset is the file's size; no tailFile changes another path's entry.
C6_ToggleTwice ==
    [][\A p \in Paths : (lastOp'.op = "tailFile" /\ lastOp'.path = p) =>
          /\ \A q \in Paths \ {p} : Registry'[q] = Registry[q]
          /\ lastOp'.twice = "untailed" => (~Has(p) /\ OpenOn(p) = {})'
          /\ lastOp'.twice = "tailed" =>
                /\ Has(p)' <=> Exists(p)
                /\ Has(p)' => /\ OpenOn(p)' = {Get(p)'}
                              /\ watchers'[Get(p)'].lastSize = StatSize(p)
                /\ ~Has(p)' => OpenOn(p)' = {}]_vars

\* Two tailFile calls in a row started and stopped a session while the other
\* path stays tailed
C6_Witness ==
    /\ lastOp.op = "tailFile" /\ lastOp.twice = "untailed" /\ lastOp.wasTailed
    /\ \E q \in Paths : Has(q)

\* C7: a new session's offset is the file's size at the start, and while the
\* session has seen no truncation its offset and every byte of its Appended
\* events lie at or after that size.
C7_NoReplay ==
    /\ (lastOp.op = "tailFile" /\ ~lastOp.wasTailed /\ thrown = "none") =>
          watchers[lastOp.watcher].lastSize = StatSize(lastOp.path)
    /\ \A w \in DOMAIN watchers :
          watchers[w].startSize # Truncation =>
              /\ watchers[w].lastSize >= watchers[w].startSize
              /\ (lastOp.op = "watch" /\ lastOp.watcher = w) =>
                    \A i \in 1..Len(emitted) :
                        emitted[i].type = "Appended" =>
                            emitted[i].from >= watchers[w].startSize

\* A session started on a file with content emitted an Appended event
C7_Witness ==
    /\ lastOp.op = "watch"
    /\ lastOp.watcher \in DOMAIN watchers
    /\ watchers[lastOp.watcher].startSize > 0
    /\ Len(emitted) = 1 /\ emitted[1].type = "Appended"

\* C8: a change callback that finds the file's size equal to the offset emits
\* nothing and changes neither the offset nor the registry.
C8_NoGrowthNoEvent ==
    [][(lastOp'.op = "watch" /\ lastOp'.size = lastOp'.offset) =>
          /\ emitted' = <<>>
          /\ thrown' = "none"
          /\ watchers' = watchers
          /\ tailWatchers' = tailWatchers]_vars

\* A change callback ran on a file with content whose size was the offset
C8_Witness ==
    /\ lastOp.op = "watch" /\ lastOp.size = lastOp.offset /\ lastOp.size > 0
    /\ Has(lastOp.path)

\* ------------------------------------------------------- the scan claims
\* The last operation was a handler that scanned the document: a change of
\* the editor or of the text with the log file in the active editor
JustScanned == lastOp.op = "scan" /\ statusBar.shown

\* Level k has a pattern that matches the line
MatchesLevel(k, line) ==
    \E j \in 1..Len(logLevels[k].patterns) : Exec(logLevels[k].patterns[j], line, 0).matched

\* The primary level of a line: the first level in priority order that
\* matches it, 0 if none does
Primary(line) ==
    IF \E k \in 1..Len(logLevels) : MatchesLevel(k, line)
    THEN CHOOSE k \in 1..Len(logLevels) :
             MatchesLevel(k, line) /\ \A h \in 1..(k - 1) : ~MatchesLevel(h, line)
    ELSE 0

\* The status bar's counter of level k; DEBUG has none
Counter(k) ==
    CASE logLevels[k].name = "ERROR" -> statusBar.errorCount
      [] logLevels[k].name = "WARN" -> statusBar.warnCount
      [] logLevels[k].name = "INFO" -> statusBar.infoCount
      [] OTHER -> 0

LineNumbers == 1..Len(document)

\* C9: the count of every level is the number of lines whose primary level,
\* by the annotation's matchers, is that level.
C9_CountsPrimaryLevel ==
    statusBar.shown =>
        \A k \in 1..Len(logLevels) :
            Counter(k) = Cardinality({n \in LineNumbers : Primary(document[n]) = k})

\* C10: a line is in a level's decorations exactly if a pattern of the level
\* matches it, and once; the counts add up to at most the number of lines,
\* and no level counts a line that a higher level matches.
C10_AnnotateAllCountOne ==
    JustScanned =>
        /\ \A k \in 1..Len(logLevels) :
              LET batch == decorations[logLevels[k].name] IN
              /\ \A n \in LineNumbers :
                    (\E i \in 1..Len(batch) : batch[i] = n - 1) <=> MatchesLevel(k, document[n])
              /\ \A i, j \in 1..Len(batch) : batch[i] = batch[j] => i = j
        /\ statusBar.errorCount + statusBar.warnCount + statusBar.infoCount <= Len(document)
        /\ \A k \in 1..Len(logLevels) :
              Counter(k) <= Cardinality({n \in LineNumbers :
                                \A h \in 1..(k - 1) : ~MatchesLevel(h, document[n])})

\* Two characters are the same letter in either case, or the same character
SameLetter(c, d) ==
    \/ c = d
    \/ c \in DOMAIN UpperToLower /\ UpperToLower[c] = d
    \/ d \in DOMAIN UpperToLower /\ UpperToLower[d] = c

WordCharacter(c) ==
    c \in {"a", "b", "c", "d", "e", "f", "g", "h", "i", "j", "k", "l", "m", "n", "o", "p",
           "q", "r", "s", "t", "u", "v", "w", "x", "y", "z",
           "A", "B", "C", "D", "E", "F", "G", "H", "I", "J", "K", "L", "M", "N", "O", "P",
           "Q", "R", "S", "T", "U", "V", "W", "X", "Y", "Z",
           "0", "1", "2", "3", "4", "5", "6", "7", "8", "9", "_"}

\* The token stands in the line as a whole word, in any letter case: no
\* letter, digit or underscore before it or after it
ContainsWord(line, token) ==
    \E pos \in 0..(Len(line) - Len(token)) :
        /\ \A i \in 1..Len(token) : SameLetter(line[pos + i], token[i])
        /\ pos >= 1 => ~WordCharacter(line[pos])
        /\ pos + Len(token) < Len(line) => ~WordCharacter(line[pos + Len(token) + 1])

ErrorTokens ==
    {<<"E", "R", "R", "O", "R">>, <<"F", "A", "T", "A", "L">>,
     <<"C", "R", "I", "T", "I", "C", "A", "L">>, <<"S", "E", "V", "E", "R", "E">>}

HasErrorToken(line) == \E token \in ErrorTokens : ContainsWord(line, token)

\* The last operation was filterByLevel and it wrote the lines of the level
FilteredBy(level) == lastOp.op = "filter" /\ lastOp.path = level /\ emitted # <<>>

\* The texts of the lines the last filterByLevel wrote, in order
FilterOutput == [i \in 1..(Len(emitted) - 2) |-> emitted[i + 2].payload]

\* The line with number n of the document is in batch (line numbers from 0)
InBatch(batch, n) == \E i \in 1..Len(batch) : batch[i] = n - 1

\* The text of line number n (from 1) as a filter by a level shows it: [n] line
Numbered(n, line) == <<"[">> \o Decimal(n) \o <<"]", " ">> \o line

\* C11: a line that contains ERROR, FATAL, CRITICAL or SEVERE as a whole word,
\* in any letter case, is in the ERROR decorations after a scan and in the
\* output of a filter by ERROR.
C11_ErrorTokensAreError ==
    \A n \in LineNumbers :
        HasErrorToken(document[n]) =>
            /\ JustScanned => InBatch(decorations["ERROR"], n)
            /\ FilteredBy("ERROR") =>
                  \E i \in 1..Len(FilterOutput) : FilterOutput[i] = Numbered(n, document[n])

\* A filter by ERROR wrote a line whose token is not in upper case and stands
\* between other characters, and the line is in the ERROR decorations
C11_Witness ==
    /\ FilteredBy("ERROR")
    /\ document \in {<<LineSevereMixed>>, <<LineHyphens>>}
    /\ FilterOutput = <<Numbered(1, document[1])>>
    /\ decorations["ERROR"] = <<0>>

\* C12: a filter by a level writes, after clearing the channel, a header with
\* the number of lines it kept and then exactly the lines of the level's
\* annotation batch, each once, in document order, each as [n] line with n
\* its number from 1; a filter by All Levels writes every line, in order.
C12_FilterAgreesWithAnnotation ==
    /\ \A level \in LevelNames :
          FilteredBy(level) =>
              LET batch == applyHighlights(document).decorations[level] IN
              /\ emitted[1] = Cleared
              /\ emitted[2].type = "Filtered" /\ emitted[2].path = level
              /\ emitted[2].len = Len(batch)
              /\ emitted[2].payload = Decimal(Len(batch))
              /\ FilterOutput = [i \in 1..Len(batch) |->
                                    Numbered(batch[i] + 1, document[batch[i] + 1])]
              /\ \A n \in LineNumbers :
                    InBatch(batch, n) <=>
                        \E i \in 1..Len(FilterOutput) :
                            FilterOutput[i] = Numbered(n, document[n])
              /\ (statusBar.shown /\ decorations # NoDecorations) =>
                    decorations[level] = batch
    /\ FilteredBy(AllLevels) =>
          /\ emitted[1] = Cleared
          /\ emitted[2].type = "Filtered" /\ emitted[2].len = Len(document)
          /\ FilterOutput = document

\* A filter by INFO of a two-line document wrote only its second line, which
\* is the one in the INFO decorations
C12_Witness ==
    /\ FilteredBy("INFO")
    /\ Len(document) = 2
    /\ decorations["INFO"] = <<1>>
    /\ FilterOutput = <<Numbered(2, document[2])>>

\* C13: whatever lastIndex the earlier scans and filters left in the patterns,
\* a scan puts a line in a level's decorations, and a filter by the level
\* writes it, exactly if a pattern of the level matches the line from its
\* start, as a pattern that was never used does.
C13_NoCursorCarried ==
    \A k \in 1..Len(logLevels) :
        \A n \in LineNumbers :
            /\ JustScanned =>
                  (InBatch(decorations[logLevels[k].name], n) <=> MatchesLevel(k, document[n]))
            /\ FilteredBy(logLevels[k].name) =>
                  ((\E i \in 1..Len(FilterOutput) :
                        FilterOutput[i] = Numbered(n, document[n]))
                     <=> MatchesLevel(k, document[n]))

\* A filter by ERROR, run when the scan had left the first ERROR pattern's
\* lastIndex behind the token, wrote both lines of a document whose lines
\* both hold the token, and left lastIndex there again
C13_Witness ==
    /\ FilteredBy("ERROR")
    /\ document = <<LineError, LineError>>
    /\ Len(FilterOutput) = 2
    /\ lastIndex[<<1, 1>>] = 5

\* ------------------------------------------- the claims on the tail's order
\* The last operation was a callback that emitted an Appended event
Read == lastOp.op = "watch" /\ Len(emitted) = 1 /\ emitted[1].type = "Appended"

\* C14: the callbacks of a session run one after the other, each as a whole:
\* a callback that emits an Appended event reads from the offset it found and
\* leaves the offset behind what it read, so the next callback starts from
\* another offset, and until the session sees a truncation the bytes its
\* Appended events read are as many as the offset has moved since the start.
C14_OneHandlerPerOffset ==
    /\ Read =>
          /\ emitted[1].from = lastOp.offset
          /\ watchers[lastOp.watcher].lastSize = emitted[1].from + emitted[1].len
          /\ watchers[lastOp.watcher].lastSize > lastOp.offset
    /\ \A w \in DOMAIN watchers :
          watchers[w].startSize # Truncation =>
              watchers[w].sent = watchers[w].lastSize - watchers[w].startSize

\* The second callback of a session that emitted, each of the two one byte
C14_Witness ==
    /\ Read
    /\ emitted[1].len = 1
    /\ watchers[lastOp.watcher].sent = 2

\* C15: every read of the callback starts at the offset and asks for the
\* size it saw less the offset, which is more than zero; a callback that
\* sees the size at or below the offset reads nothing.
C15_ReadsArePositive ==
    lastOp.op = "watch" =>
        /\ \A i \in 1..Len(emitted) :
              emitted[i].type = "Appended" =>
                  /\ emitted[i].from = lastOp.offset
                  /\ emitted[i].len = lastOp.size - lastOp.offset
                  /\ emitted[i].len > 0
        /\ lastOp.size <= lastOp.offset =>
              \A i \in 1..Len(emitted) : emitted[i].type # "Appended"

\* A callback read the growth of a file after the session saw a truncation
C15_Witness ==
    /\ Read
    /\ watchers[lastOp.watcher].startSize = Truncation
    /\ emitted[1].len > 0

\* C16: a teardown leaves the Map empty and every watcher closed and throws
\* nothing; a teardown that finds the Map empty and every watcher closed, as
\* the teardown before it left them, closes no watcher and changes nothing.
C16_TeardownTwice ==
    [][lastOp'.op \in Teardowns =>
          /\ tailWatchers' = <<>>
          /\ \A w \in DOMAIN watchers' : watchers'[w].closed
          /\ thrown' = "none"
          /\ lastOp'.twice = "torn" => lastOp'.size = 0
          /\ (tailWatchers = <<>> /\ \A w \in DOMAIN watchers : watchers[w].closed) =>
                /\ lastOp'.size = 0
                /\ watchers' = watchers
                /\ tailWatchers' = tailWatchers
                /\ files' = files
                /\ emitted' = <<>>]_vars

\* A teardown ran right after a teardown that had closed watchers
C16_Witness ==
    /\ lastOp.op \in Teardowns
    /\ lastOp.twice = "torn"
    /\ lastOp.size = 0
    /\ tailWatchers = <<>>

\* C17: a callback of a session on path p, and a tailFile on p, leave every
\* other path's entry, watcher, offset and open watchers as they were.
C17_PathsAreIndependent ==
    [][\A p \in Paths :
          (lastOp'.op \in {"watch", "rename", "tailFile"} /\ lastOp'.path = p) =>
              \A q \in Paths \ {p} :
                  /\ Registry'[q] = Registry[q]
                  /\ OpenOn(q)' = OpenOn(q)
                  /\ \A w \in OpenOn(q) : watchers'[w] = watchers[w]]_vars

\* A callback emitted the growth of one file while the session of the other
\* file still has growth to read
C17_Witness ==
    /\ Read
    /\ \E q \in Paths \ {lastOp.path} :
          /\ Has(q)
          /\ watchers[Get(q)].lastSize < StatSize(q)

\* C18: in a run where the files only grow, the payloads of a session's
\* Appended events, one after the other, are the file's bytes from the offset
\* at the start up to the offset, and after a callback the offset is the size
\* the callback saw.
C18_PayloadsAreTheFile ==
    \A w \in DOMAIN watchers :
        /\ Utf8Encode(watchers[w].log)
              = SubSeq(files[watchers[w].path].data,
                       watchers[w].startSize + 1, watchers[w].lastSize)
        /\ (Handled /\ lastOp.watcher = w) => watchers[w].lastSize = lastOp.size

\* C19: only the open watcher that the Map holds for a path emits events for
\* the path, a path outside the Map has no open watcher, and a session
\* started on a file that grew while the path was stopped starts at the
\* file's size and reads nothing before it.
C19_StoppedIsSilent ==
    /\ (lastOp.op = "watch" /\ emitted # <<>>) =>
          /\ Has(lastOp.path)
          /\ Get(lastOp.path) = lastOp.watcher
          /\ ~watchers[lastOp.watcher].closed
    /\ \A p \in Paths : ~Has(p) => OpenOn(p) = {}
    /\ (lastOp.op = "tailFile" /\ lastOp.missed) =>
          /\ thrown = "none"
          /\ Has(lastOp.path)
          /\ watchers[Get(lastOp.path)].lastSize = StatSize(lastOp.path)
          /\ \A i \in 1..Len(emitted) : emitted[i].type \notin {"Appended", "Truncated"}
    /\ Read =>
          (watchers[lastOp.watcher].startSize # Truncation =>
              emitted[1].from >= watchers[lastOp.watcher].startSize)

\* A path was stopped, its file grew, and the path was started again
C19_Witness ==
    /\ lastOp.op = "tailFile" /\ lastOp.missed
    /\ Has(lastOp.path)
    /\ watchers[Get(lastOp.path)].lastSize > 0

=============================================================================
